---- MODULE Spec2Model ----
(***************************************************************************)
(* Attendance tracker (src/main.py): the attendance-session state machine  *)
(* (log_arrival / log_leaving), the geofence gate of employee_dashboard,   *)
(* the location-restriction setting and the administrative record edit.    *)
(*                                                                         *)
(* The MongoDB collections are sequences in insertion order.  No index is  *)
(* created anywhere in the source, so insert_one never rejects a document; *)
(* find_one returns the first matching document in natural (insertion)     *)
(* order and a document's _id is its position, since nothing is deleted    *)
(* from the attendance or settings collections.  Every database call is    *)
(* one atomic step; local computation is folded into the database step    *)
(* that precedes it.                                                       *)
(***************************************************************************)
EXTENDS Integers, Sequences, FiniteSets, TLC

\* ---------------------------------------------------------------- bounds
NEmp == 1            \* employees 1..NEmp
MaxDate == 2         \* calendar dates 1..MaxDate
NSess == 2           \* concurrent browser sessions / callers
GridStep == 7        \* spacing, in minutes, of the time grid of SpecHours
MaxReq == 3          \* requests started: dashboard runs, direct calls, record edits

Emps == 1..NEmp
Dates == 1..MaxDate
Sess == 1..NSess

\* ------------------------------------------------------ program constants
MAX_DISTANCE_M == 1000      \* MAX_DISTANCE_KM = 1.0, in metres
MinutesPerDay == 1440       \* timedelta(days=1), in minutes

\* Clock readings of get_current_ist_time() used by the state machine, as
\* minutes since midnight: 00:10 and 23:50.
ClockTimes == {10, 1430}

\* Device positions, by their geodesic distance to ALLOWED_LOCATION in metres.
Distances == {1000, 1001}

\* ------------------------------------------------------------ field values
\* A value of 'Arrival Time' / 'Leaving Time': None, or a string.  A string is
\* kept as the three fields the format '%I:%M %p' reads; a string that the
\* format does not match (the empty string of a cleared input) has h = 0.
NoneTime == [k |-> "None", h |-> 0, m |-> 0, p |-> ""]
EmptyText == [k |-> "str", h |-> 0, m |-> 0, p |-> ""]

\* A value of 'Hours Present': None, or a number in hundredths of an hour.
NoneHours == [k |-> "None", v |-> 0]
Num(x) == [k |-> "num", v |-> x]

\* A value of a photo field: None, or the PNG bytes save_image returns.
NonePhoto == [k |-> "None", img |-> 0]

\* save_image(img): the uploaded picture img resized to 250x250, as PNG bytes.
save_image(img) == [k |-> "png250", img |-> img]

\* datetime.strftime('%I:%M %p') of a time of day t (minutes since midnight).
strftime(t) ==
  LET hour == t \div 60
      h12 == IF hour % 12 = 0 THEN 12 ELSE hour % 12
  IN [k |-> "str", h |-> h12, m |-> t % 60, p |-> IF hour < 12 THEN "AM" ELSE "PM"]

\* Whether datetime.strptime(s, '%I:%M %p') returns; it raises TypeError on
\* None and ValueError on a string the format does not match.
Parses(s) == s.k = "str" /\ s.h \in 1..12 /\ s.m \in 0..59 /\ s.p \in {"AM", "PM"}

\* datetime.strptime(s, '%I:%M %p'), for a string that parses: hour and minute.
strptime(s) == [hour |-> (s.h % 12) + (IF s.p = "PM" THEN 12 ELSE 0), minute |-> s.m]

\* get_current_ist_time() when the clock reads t: hour and minute.
IstTime(t) == [hour |-> t \div 60, minute |-> t % 60]

\* round(minutes * 60 / 3600, 2), in hundredths of an hour.  minutes * 100 / 60
\* never lies halfway between two integers, so the rounding mode is immaterial.
Round2(minutes) ==
  IF minutes >= 0 THEN (10 * minutes + 3) \div 6
  ELSE -((10 * (-minutes) + 3) \div 6)

\* ------------------------------------------------------------------ state
VARIABLES
  attendance,   \* attendance_collection: sequence of documents
  settings,     \* settings_collection: the values of the location_restriction documents
  today,        \* date.today() of the server
  now,          \* get_current_ist_time(), minutes since midnight
  sess,         \* per session: position in employee_dashboard / log_arrival / log_leaving
  admin,        \* position of the 'Edit Attendance Record' run of admin_page
  okArrival,    \* history: keys <<E, D>> for which log_arrival has returned True
  okLeaving,    \* history: per key, how many log_leaving calls have returned True
  used,         \* history: how many requests have been started
  hin,          \* SpecHours: the pair <<arrival, leaving>> of times of day
  hout          \* SpecHours: what log_leaving computes and stores for hin

vars == <<attendance, settings, today, now, sess, admin, okArrival, okLeaving, used, hin, hout>>

Keys == Emps \X Dates

NameOf(e) == e

\* get_geolocation() returning None: the browser has not supplied a position.
NoLocation == -1

\* The picture held by the camera_input of session s.
Photo(s) == s

\* A session at rest.  res is the local location_restriction (True until read).
Idle == [pc |-> "idle", emp |-> 0, date |-> 0, loc |-> NoLocation, res |-> TRUE,
         entry |-> 0, arr |-> NoneTime, via |-> "none", out |-> "none"]

AdminIdle == [pc |-> "idle", entry |-> 0, leaveNone |-> FALSE]

\* Times of day an administrator types into the edit form.
AdminTimes == ClockTimes

\* Texts of the edit form's inputs: well-formed times, or the cleared input.
AdminTexts == {strftime(t) : t \in AdminTimes} \cup {EmptyText}

Init ==
  /\ attendance = <<>>
  /\ settings = <<>>
  /\ today = 1
  /\ now \in ClockTimes
  /\ sess = [s \in Sess |-> Idle]
  /\ admin = AdminIdle
  /\ okArrival = {}
  /\ okLeaving = [key \in Keys |-> 0]
  /\ used = 0
  /\ hin = <<0, 0>>
  /\ hout = NoneHours

\* ------------------------------------------------------------ repository
\* The documents matching {"Employee ID": e, "Date": d}, by position.
Matches(e, d) ==
  {i \in 1..Len(attendance) : attendance[i].emp = e /\ attendance[i].date = d}

Min(S) == CHOOSE x \in S : \A y \in S : x <= y
Max(S) == CHOOSE x \in S : \A y \in S : x >= y

\* find_one with the "Date" condition of the query left out.
find_one_AnyDate(e, d) ==
  LET byEmp == {i \in 1..Len(attendance) : attendance[i].emp = e}
  IN IF byEmp = {} THEN 0 ELSE Min(byEmp)

\* attendance_collection.find_one({"Employee ID": e, "Date": d}): the position
\* of the first match, 0 for None.
find_one(e, d) == IF Matches(e, d) = {} THEN 0 ELSE Min(Matches(e, d))

\* ------------------------------------------------------------- geofence
\* is_within_allowed_location with a strict comparison.
is_within_allowed_location_Strict(dist) == dist < MAX_DISTANCE_M

\* is_within_allowed_location(lat, lon), for a position whose geodesic
\* distance to ALLOWED_LOCATION is dist metres.
is_within_allowed_location(dist) == dist <= MAX_DISTANCE_M

\* The gate without the wait for a position: no position counts as outside.
GateOutcome_NoAwaiting(location_restriction, location) ==
  IF location_restriction
  THEN IF location = NoLocation \/ ~is_within_allowed_location(location)
       THEN "out_of_location"
       ELSE "admit"
  ELSE "admit"

\* The gate with the flag ignored: the position is always checked.
GateOutcome_AlwaysOn(location_restriction, location) ==
  IF location = NoLocation THEN "awaiting"
  ELSE IF ~is_within_allowed_location(location) THEN "out_of_location"
  ELSE "admit"

\* The gate of employee_dashboard for the flag and the position it has read:
\* "awaiting" and "out_of_location" are its two early returns.
GateOutcome(location_restriction, location) ==
  IF location_restriction
  THEN IF location = NoLocation THEN "awaiting"
       ELSE IF ~is_within_allowed_location(location) THEN "out_of_location"
       ELSE "admit"
  ELSE "admit"

\* The session once the run of its request has returned with result out: the
\* run's locals are gone, its key and its result are kept for reference.
Done(r, out) == [Idle EXCEPT !.emp = r.emp, !.date = r.date, !.out = out]

\* The session after the gate, the flag having been read as value.
AfterGate(r, value) ==
  LET g == GateOutcome(value, r.loc)
      q == [r EXCEPT !.res = value]
  IN IF g = "admit" THEN [q EXCEPT !.pc = "load"] ELSE Done(q, g)

\* ------------------------------------------------------ time arithmetic
\* time_diff with the day added also when the two times are equal.
time_diff_WrapOnEqual(arrival_time, leaving_time) ==
  LET d == (leaving_time.hour * 60 + leaving_time.minute)
           - (arrival_time.hour * 60 + arrival_time.minute)
  IN IF d <= 0 THEN d + MinutesPerDay ELSE d

\* time_diff of log_leaving in minutes: both instants are on the record's date,
\* and a day is added to the leaving instant when the difference is negative.
time_diff(arrival_time, leaving_time) ==
  LET d == (leaving_time.hour * 60 + leaving_time.minute)
           - (arrival_time.hour * 60 + arrival_time.minute)
  IN IF d < 0 THEN d + MinutesPerDay ELSE d

\* hours_present without the day added on a negative difference.
hours_present_NoWrap(arrival, t) ==
  LET a == strptime(arrival)
      l == IstTime(t)
  IN Num(Round2((l.hour * 60 + l.minute) - (a.hour * 60 + a.minute)))

\* 'Hours Present' as log_leaving stores it, from the stored 'Arrival Time'
\* string and the clock reading t.
hours_present(arrival, t) == Num(Round2(time_diff(strptime(arrival), IstTime(t))))

\* hours_present of the 'Update Record' edit: None when either text fails to
\* parse, otherwise the plain difference, with no day added.
admin_hours(arr_time, leave_time) ==
  IF Parses(arr_time) /\ Parses(leave_time)
  THEN LET a == strptime(arr_time)
           l == strptime(leave_time)
       IN Num(Round2((l.hour * 60 + l.minute) - (a.hour * 60 + a.minute)))
  ELSE NoneHours

\* --------------------------------------------------- employee_dashboard
\* A dashboard run starts: date.today() and get_geolocation() are read.
DashStart(s, e, location) ==
  /\ used < MaxReq
  /\ sess[s].pc = "idle"
  /\ sess' = [sess EXCEPT ![s] = [Idle EXCEPT !.pc = "get_restriction", !.emp = e,
                                       !.date = today, !.loc = location, !.via = "dash"]]
  /\ used' = used + 1
  /\ UNCHANGED <<attendance, settings, today, now, admin, okArrival, okLeaving, hin, hout>>

\* get_location_restriction: find_one on the settings collection; a stored
\* setting is returned and the gate follows, otherwise the insert is next.
GetRestrictionFind(s) ==
  /\ sess[s].pc = "get_restriction"
  /\ sess' = [sess EXCEPT ![s] =
                IF settings # <<>> THEN AfterGate(@, settings[1])
                ELSE [@ EXCEPT !.pc = "insert_setting"]]
  /\ UNCHANGED <<attendance, settings, today, now, admin, okArrival, okLeaving, used, hin, hout>>

\* get_location_restriction: insert_one of the default True, which is returned.
GetRestrictionInsert(s) ==
  /\ sess[s].pc = "insert_setting"
  /\ settings' = Append(settings, TRUE)
  /\ sess' = [sess EXCEPT ![s] = AfterGate(@, TRUE)]
  /\ UNCHANGED <<attendance, today, now, admin, okArrival, okLeaving, used, hin, hout>>

\* The attendance logic after the gate: load_attendance, today's entries, and
\* the form shown; click says whether the form's button was pressed.
Load(s, click) ==
  /\ sess[s].pc = "load"
  /\ LET todays == Matches(sess[s].emp, sess[s].date)
     IN sess' = [sess EXCEPT ![s] =
          IF todays = {}
          THEN IF click THEN [@ EXCEPT !.pc = "arrival_find"] ELSE Done(@, "arrival_form")
          ELSE IF attendance[Max(todays)].leaving = NoneTime
               THEN IF click THEN [@ EXCEPT !.pc = "leaving_find"]
                    ELSE Done(@, "leaving_form")
               ELSE Done(@, "all_done")]
  /\ UNCHANGED <<attendance, settings, today, now, admin, okArrival, okLeaving, used, hin, hout>>

\* ------------------------------------------------------------ log_arrival
\* log_arrival(e, name, d, photo) called by a caller other than the dashboard.
CallLogArrival(s, e, d) ==
  /\ used < MaxReq
  /\ sess[s].pc = "idle"
  /\ sess' = [sess EXCEPT ![s] = [Idle EXCEPT !.pc = "arrival_find", !.emp = e,
                                       !.date = d, !.via = "call"]]
  /\ used' = used + 1
  /\ UNCHANGED <<attendance, settings, today, now, admin, okArrival, okLeaving, hin, hout>>

\* The check of log_arrival rejecting only while the session is still open.
ArrivalCheck_OpenOnly(idx) ==
  IF idx # 0 /\ attendance[idx].leaving = NoneTime THEN "duplicate" ELSE "proceed"

\* What log_arrival decides from its find_one: the duplicate error when a
\* document was found (position idx > 0), otherwise it goes on to insert.
ArrivalCheck(idx) == IF idx # 0 THEN "duplicate" ELSE "proceed"

\* log_arrival, the lookup.
LogArrivalFind(s) ==
  /\ sess[s].pc = "arrival_find"
  /\ LET c == ArrivalCheck(find_one(sess[s].emp, sess[s].date))
     IN sess' = [sess EXCEPT ![s] =
          IF c = "proceed" THEN [@ EXCEPT !.pc = "arrival_insert"] ELSE Done(@, c)]
  /\ UNCHANGED <<attendance, settings, today, now, admin, okArrival, okLeaving, used, hin, hout>>

\* The document log_arrival builds.
ArrivalEntry(e, d, t, photo) ==
  [emp |-> e, name |-> NameOf(e), date |-> d, arrival |-> strftime(t),
   leaving |-> NoneTime, hours |-> NoneHours,
   aphoto |-> save_image(photo), lphoto |-> NonePhoto]

\* log_arrival, the insert; it returns True.
LogArrivalInsert(s) ==
  /\ sess[s].pc = "arrival_insert"
  /\ attendance' = Append(attendance, ArrivalEntry(sess[s].emp, sess[s].date, now, Photo(s)))
  /\ okArrival' = okArrival \cup {<<sess[s].emp, sess[s].date>>}
  /\ sess' = [sess EXCEPT ![s] = Done(@, "arrival_ok")]
  /\ UNCHANGED <<settings, today, now, admin, okLeaving, used, hin, hout>>

\* ------------------------------------------------------------ log_leaving
\* log_leaving(e, d, photo) called by a caller other than the dashboard.
CallLogLeaving(s, e, d) ==
  /\ used < MaxReq
  /\ sess[s].pc = "idle"
  /\ sess' = [sess EXCEPT ![s] = [Idle EXCEPT !.pc = "leaving_find", !.emp = e,
                                       !.date = d, !.via = "call"]]
  /\ used' = used + 1
  /\ UNCHANGED <<attendance, settings, today, now, admin, okArrival, okLeaving, hin, hout>>

\* The check of log_leaving without the test of 'Leaving Time'.
LeavingCheck_NoCompletedTest(idx) ==
  IF idx = 0 THEN "no_arrival"
  ELSE IF ~Parses(attendance[idx].arrival) THEN "exception"
  ELSE "proceed"

\* What log_leaving decides from its find_one (position idx, 0 for None): the
\* two errors it returns, the ValueError that strptime raises on a stored
\* arrival text the format does not match, or it goes on to update.
LeavingCheck(idx) ==
  IF idx = 0 THEN "no_arrival"
  ELSE IF attendance[idx].leaving # NoneTime THEN "already"
  ELSE IF ~Parses(attendance[idx].arrival) THEN "exception"
  ELSE "proceed"

\* log_leaving, the lookup.
LogLeavingFind(s) ==
  /\ sess[s].pc = "leaving_find"
  /\ LET idx == find_one(sess[s].emp, sess[s].date)
         c == LeavingCheck(idx)
     IN sess' = [sess EXCEPT ![s] =
          IF c = "proceed"
          THEN [@ EXCEPT !.pc = "leaving_update", !.entry = idx,
                         !.arr = attendance[idx].arrival]
          ELSE Done(@, c)]
  /\ UNCHANGED <<attendance, settings, today, now, admin, okArrival, okLeaving, used, hin, hout>>

\* The $set of log_leaving writing the picture to 'Arrival Photo'.
LeavingSet_ArrivalPhoto(doc, arrival, t, photo) ==
  [doc EXCEPT !.leaving = strftime(t), !.hours = hours_present(arrival, t),
              !.aphoto = save_image(photo)]

\* The $set of log_leaving applied to document doc: the clock reading t, the
\* hours from the arrival text read at the lookup, and the picture.
LeavingSet(doc, arrival, t, photo) ==
  [doc EXCEPT !.leaving = strftime(t), !.hours = hours_present(arrival, t),
              !.lphoto = save_image(photo)]

\* log_leaving, the update_one by _id; it returns True.
LogLeavingUpdate(s) ==
  /\ sess[s].pc = "leaving_update"
  /\ attendance' = [attendance EXCEPT ![sess[s].entry] =
                      LeavingSet(@, sess[s].arr, now, Photo(s))]
  /\ okLeaving' = [okLeaving EXCEPT ![<<sess[s].emp, sess[s].date>>] = @ + 1]
  /\ sess' = [sess EXCEPT ![s] = Done(@, "leaving_ok")]
  /\ UNCHANGED <<settings, today, now, admin, okArrival, used, hin, hout>>

\* ------------------------------------------------------------- admin_page
\* 'Edit Attendance Record': the find_one of a run in which 'Update Record'
\* was pressed and a document was found.
AdminFind(e, d) ==
  /\ used < MaxReq
  /\ admin.pc = "idle"
  /\ find_one(e, d) # 0
  /\ admin' = [pc |-> "update", entry |-> find_one(e, d),
               leaveNone |-> attendance[find_one(e, d)].leaving = NoneTime]
  /\ used' = used + 1
  /\ UNCHANGED <<attendance, settings, today, now, sess, okArrival, okLeaving, hin, hout>>

\* The $set of 'Update Record' applied to document doc.
AdminSet(doc, arr_time, leave_time) ==
  [doc EXCEPT !.arrival = arr_time, !.leaving = leave_time,
              !.hours = admin_hours(arr_time, leave_time)]

\* 'Update Record': the update_one by _id with the texts of the two inputs.  An
\* input left untouched over a None 'Leaving Time' may hand None back.
AdminUpdate(arr_time, leave_time) ==
  /\ admin.pc = "update"
  /\ leave_time = NoneTime => admin.leaveNone
  /\ attendance' = [attendance EXCEPT ![admin.entry] = AdminSet(@, arr_time, leave_time)]
  /\ admin' = AdminIdle
  /\ UNCHANGED <<settings, today, now, sess, okArrival, okLeaving, used, hin, hout>>

\* set_location_restriction(value): update_one with upsert=True.
set_location_restriction(value) ==
  /\ settings' = IF settings = <<>> THEN <<value>> ELSE [settings EXCEPT ![1] = value]
  /\ UNCHANGED <<attendance, today, now, sess, admin, okArrival, okLeaving, used, hin, hout>>

\* ------------------------------------------------------------------ clock
\* The IST clock moves on to another reading.
Tick ==
  /\ now' \in ClockTimes \ {now}
  /\ UNCHANGED <<attendance, settings, today, sess, admin, okArrival, okLeaving, used, hin, hout>>

\* The server's date.today() moves on to the next day.
NextDay ==
  /\ today < MaxDate
  /\ today' = today + 1
  /\ UNCHANGED <<attendance, settings, now, sess, admin, okArrival, okLeaving, used, hin, hout>>

\* ------------------------------------------------------- specifications
Locations == {NoLocation} \cup Distances

NextLogging ==
  \/ \E s \in Sess, e \in Emps, location \in Locations : DashStart(s, e, location)
  \/ \E s \in Sess : GetRestrictionFind(s)
  \/ \E s \in Sess : GetRestrictionInsert(s)
  \/ \E s \in Sess, click \in BOOLEAN : Load(s, click)
  \/ \E s \in Sess, e \in Emps, d \in Dates : CallLogArrival(s, e, d)
  \/ \E s \in Sess : LogArrivalFind(s)
  \/ \E s \in Sess : LogArrivalInsert(s)
  \/ \E s \in Sess, e \in Emps, d \in Dates : CallLogLeaving(s, e, d)
  \/ \E s \in Sess : LogLeavingFind(s)
  \/ \E s \in Sess : LogLeavingUpdate(s)
  \/ \E value \in BOOLEAN : set_location_restriction(value)
  \/ Tick
  \/ NextDay

NextAdmin ==
  \/ \E e \in Emps, d \in Dates : AdminFind(e, d)
  \/ \E arr_time \in AdminTexts, leave_time \in AdminTexts \cup {NoneTime} :
       AdminUpdate(arr_time, leave_time)

Next == NextLogging \/ NextAdmin

\* Every operation of the program.
Spec == Init /\ [][Next]_vars

\* The logging operations alone: no administrative edit of a record.
SpecLogging == Init /\ [][NextLogging]_vars

\* The time grid of SpecHours: every GridStep-th minute and the named times.
Times == {t \in 0..(MinutesPerDay - 1) : t % GridStep = 0}
         \cup {0, 10, 540, 719, 720, 779, 780, 1050, 1430, 1439}

InitHours ==
  /\ attendance = <<>>
  /\ settings = <<>>
  /\ today = 1
  /\ now = 0
  /\ sess = [s \in Sess |-> Idle]
  /\ admin = AdminIdle
  /\ okArrival = {}
  /\ okLeaving = [key \in Keys |-> 0]
  /\ used = 0
  /\ hin \in Times \X Times
  /\ hout = NoneHours

\* The hours log_leaving stores when the record's arrival was logged at hin[1]
\* and the clock reads hin[2].
ComputeHours ==
  /\ hout = NoneHours
  /\ hout' = hours_present(strftime(hin[1]), hin[2])
  /\ UNCHANGED <<attendance, settings, today, now, sess, admin, okArrival, okLeaving, used, hin>>

NextHours == ComputeHours

\* The hours computation of log_leaving over the time grid.
SpecHours == InitHours /\ [][NextHours]_vars

\* ================================================================ claims
KeyOf(r) == <<r.emp, r.date>>

\* Session s takes the step that ends its lookup in log_arrival / log_leaving.
ArrivalFindStep(s) == sess[s].pc = "arrival_find" /\ sess'[s] # sess[s]
LeavingFindStep(s) == sess[s].pc = "leaving_find" /\ sess'[s] # sess[s]

\* Session s takes the step in which get_location_restriction returns and the
\* gate is evaluated; FlagRead is the value returned to it.
GateStep(s) ==
  /\ sess[s].pc \in {"get_restriction", "insert_setting"}
  /\ sess'[s].pc \notin {"get_restriction", "insert_setting"}
FlagRead(s) == IF sess[s].pc = "get_restriction" THEN settings[1] ELSE TRUE

\* C1: for every employee E and date D, after any interleaving of log_arrival
\* requests the attendance store holds at most one record for (E, D).
C1_AtMostOneRecordPerKey ==
  \A key \in Keys : Cardinality(Matches(key[1], key[2])) <= 1

\* C2: for each (E, D), at most one log_leaving request returns success and
\* writes the record, so a leaving time once set is never written again.
C2_LeavingWrittenOnce ==
  \A key \in Keys : okLeaving[key] <= 1

\* C3: log_leaving never returns success unless log_arrival has succeeded for
\* the same (E, D); with no record for (E, D) it returns the no-arrival error
\* and leaves the store as it is; every record with a leaving time has an
\* arrival time, set by an earlier successful log_arrival.
C3_Records ==
  /\ \A i \in 1..Len(attendance) :
       attendance[i].leaving # NoneTime =>
         attendance[i].arrival # NoneTime /\ KeyOf(attendance[i]) \in okArrival
  /\ \A key \in Keys : okLeaving[key] > 0 => key \in okArrival
C3_Steps ==
  \A s \in Sess :
    /\ (LeavingFindStep(s) /\ Matches(sess[s].emp, sess[s].date) = {})
         => /\ sess'[s].pc = "idle"
            /\ sess'[s].out = "no_arrival"
            /\ attendance' = attendance
    /\ (sess'[s] # sess[s] /\ sess'[s].out = "leaving_ok")
         => KeyOf(sess[s]) \in okArrival
C3_NoLeavingBeforeArrival == []C3_Records /\ [][C3_Steps]_vars

\* A log_leaving has failed for a key with no record, while another key's
\* record has been completed.
C3_Witness ==
  \E s \in Sess :
    /\ sess[s].out = "no_arrival"
    /\ Matches(sess[s].emp, sess[s].date) = {}
    /\ \E i \in 1..Len(attendance) : attendance[i].leaving # NoneTime

\* C4: a log_arrival whose lookup finds a record for (E, D), ArrivalLogged or
\* Completed, returns the duplicate error, changes no field of any record and
\* adds no record.
C4_DuplicateArrivalRejected ==
  [][\A s \in Sess :
       (ArrivalFindStep(s) /\ Matches(sess[s].emp, sess[s].date) # {})
         => /\ sess'[s].pc = "idle"
            /\ sess'[s].out = "duplicate"
            /\ attendance' = attendance]_vars

\* A log_arrival has been rejected as a duplicate and the one record of its key
\* is Completed.
C4_Witness ==
  \E s \in Sess :
    /\ sess[s].out = "duplicate"
    /\ Cardinality(Matches(sess[s].emp, sess[s].date)) = 1
    /\ \A i \in Matches(sess[s].emp, sess[s].date) : attendance[i].leaving # NoneTime

C6_ElapsedHours ==
  hout # NoneHours =>
    LET A == hin[1]
        L == hin[2]
    IN /\ hout = Num(Round2((L - A) % 1440))
       /\ hout = Num(Round2((L - A) + (IF L < A THEN 1440 ELSE 0)))
       /\ hout.v >= 0 /\ hout.v < 2400
       /\ (A = L => hout.v = 0)
       /\ (A = 540 /\ L = 1050 => hout.v = 850)
       /\ (A = 1430 /\ L = 10 => hout.v = 33)

\* The hours for 23:50 -> 00:10 have been computed, across midnight.
C6_Witness == hin = <<1430, 10>> /\ hout = Num(33)

\* C7: every attendance record has a leaving time if and only if it has hours.
C7_LeavingIffHours ==
  \A i \in 1..Len(attendance) :
    (attendance[i].leaving # NoneTime) <=> (attendance[i].hours # NoneHours)

\* C8: every record's hours, when present, are >= 0.
C8_HoursNonNegative ==
  \A i \in 1..Len(attendance) :
    attendance[i].hours.k = "num" => attendance[i].hours.v >= 0

\* C9: a dashboard request that reads the restriction flag as disabled passes
\* the gate for every position and with no position, leaving the store as it
\* is; past the gate the run offers arrival logging exactly when (E, D) has no
\* record, whatever the position.
C9_Steps ==
  \A s \in Sess :
    /\ (GateStep(s) /\ ~FlagRead(s))
         => sess'[s].pc = "load" /\ attendance' = attendance
    /\ (sess[s].pc = "load" /\ sess'[s] # sess[s])
         => ((Matches(sess[s].emp, sess[s].date) = {})
               <=> (sess'[s].pc = "arrival_find" \/ sess'[s].out = "arrival_form"))
C9_DisabledGateAdmits == [][C9_Steps]_vars

\* With the flag read as disabled, a run with no position is about to insert
\* its arrival while a run 1001 m away has passed the gate too.
C9_Witness ==
  \E s \in Sess, q \in Sess :
    /\ sess[s].via = "dash" /\ ~sess[s].res /\ sess[s].loc = NoLocation
    /\ sess[s].pc = "arrival_insert"
    /\ sess[q].via = "dash" /\ ~sess[q].res /\ sess[q].loc = 1001
    /\ sess[q].pc \in {"load", "arrival_find", "arrival_insert"}

\* C10: a dashboard request that reads the flag as enabled and has a position
\* passes the gate if and only if the position is at most 1.0 km (1000 m,
\* inclusive) from the allowed location; otherwise it returns out-of-location
\* and the store is left as it is.
C10_Steps ==
  \A s \in Sess :
    (GateStep(s) /\ FlagRead(s) /\ sess[s].loc # NoLocation)
      => /\ (sess'[s].pc = "load") <=> (sess[s].loc <= 1000)
         /\ (sess[s].loc > 1000)
              => /\ sess'[s].pc = "idle"
                 /\ sess'[s].out = "out_of_location"
                 /\ attendance' = attendance
C10_EnabledGateRadius == [][C10_Steps]_vars

\* One run has been rejected as out of location; another, exactly 1000 m away
\* with the flag read as enabled, has passed the gate.
C10_Witness ==
  \E s \in Sess, q \in Sess :
    /\ sess[s].out = "out_of_location"
    /\ sess[q].pc = "load" /\ sess[q].res /\ sess[q].loc = 1000

\* C11: a dashboard request that reads the flag as enabled and has no position
\* yet ends with the awaiting-location outcome, which is neither admission nor
\* the out-of-location rejection, and the store is left as it is.
C11_Steps ==
  \A s \in Sess :
    (GateStep(s) /\ FlagRead(s) /\ sess[s].loc = NoLocation)
      => /\ sess'[s].pc = "idle"
         /\ sess'[s].out = "awaiting"
         /\ sess'[s].out # "out_of_location"
         /\ attendance' = attendance
C11_AwaitingLocation == [][C11_Steps]_vars

\* A run without a position has ended awaiting the location, the stored flag
\* being enabled.
C11_Witness ==
  \E s \in Sess :
    /\ sess[s].out = "awaiting"
    /\ settings # <<>> /\ settings[1]

\* C12: once every get_location_restriction and set_location_restriction call
\* has completed, the store holds exactly one location_restriction setting (the
\* one every later get returns).
C12_SingleSetting ==
  (\A s \in Sess : sess[s].pc \notin {"get_restriction", "insert_setting"})
    => Len(settings) <= 1

\* C13: a step of a logging request for (E, D) leaves every record of another
\* key as it is and removes none; a record it adds has key (E, D); and the only
\* change it makes to an existing record is the one of log_leaving, to the
\* leaving time, the hours and the leaving photo, the employee id, name, date,
\* arrival time and arrival photo staying as they are.
SameButLeaving(new, old) ==
  new = [old EXCEPT !.leaving = new.leaving, !.hours = new.hours, !.lphoto = new.lphoto]
C13_Steps ==
  \A s \in Sess :
    sess'[s] # sess[s] =>
      /\ Len(attendance') >= Len(attendance)
      /\ \A i \in 1..Len(attendance') :
           IF i > Len(attendance)
           THEN KeyOf(attendance'[i]) = KeyOf(sess[s])
           ELSE \/ attendance'[i] = attendance[i]
                \/ /\ KeyOf(attendance[i]) = KeyOf(sess[s])
                   /\ sess[s].pc = "leaving_update"
                   /\ SameButLeaving(attendance'[i], attendance[i])
C13_OneRecordTouched == [][C13_Steps]_vars

\* A log_leaving has completed the record of one key while the record of
\* another key is still open.
C13_Witness ==
  \E s \in Sess, i \in 1..Len(attendance), j \in 1..Len(attendance) :
    /\ sess[s].out = "leaving_ok"
    /\ KeyOf(attendance[i]) = KeyOf(sess[s])
    /\ attendance[i].leaving # NoneTime
    /\ KeyOf(attendance[j]) # KeyOf(sess[s])
    /\ attendance[j].leaving = NoneTime

\* C14: with logging requests only, the hours of every Completed record are the
\* elapsed hours, with the wrap at midnight, between the arrival time and the
\* leaving time stored in that same record.
C14_HoursMatchStoredTimes ==
  \A i \in 1..Len(attendance) :
    attendance[i].leaving # NoneTime =>
      LET a == strptime(attendance[i].arrival)
          l == strptime(attendance[i].leaving)
          A == a.hour * 60 + a.minute
          L == l.hour * 60 + l.minute
      IN /\ Parses(attendance[i].arrival) /\ Parses(attendance[i].leaving)
         /\ attendance[i].hours = Num(Round2((L - A) % 1440))

\* A record logged at 23:50 has been completed at 00:10, across midnight.
C14_Witness ==
  \E i \in 1..Len(attendance) :
    /\ attendance[i].arrival = strftime(1430)
    /\ attendance[i].leaving = strftime(10)
    /\ attendance[i].hours = Num(33)

\* C15: whenever an employee has a record with no leaving time, of the current
\* date or an earlier one, a dashboard run of that employee that passes the gate
\* offers 'Log Leaving Time' (and with it the completion of that record), also
\* when the date has moved on since the arrival.
OpenRecord(e, d) ==
  \E i \in 1..Len(attendance) :
    attendance[i].emp = e /\ attendance[i].date <= d /\ attendance[i].leaving = NoneTime
C15_Steps ==
  \A s \in Sess :
    (sess[s].pc = "load" /\ sess'[s] # sess[s] /\ OpenRecord(sess[s].emp, sess[s].date))
      => (sess'[s].pc = "leaving_find" \/ sess'[s].out = "leaving_form")
C15_OpenSessionCanBeCompleted == [][C15_Steps]_vars

====
